---- MODULE Spec2Model ----
(***************************************************************************)
(* A model of EvaluationAndVisualization.py: the data splitter             *)
(* (split_data), the Evaluator, the Visualizer and the script's driver.    *)
(*                                                                         *)
(* Split fractions are Python floats in the source.  Here a fraction is an *)
(* exact rational <<num, den>> with den > 0, and train_split * num_graphs  *)
(* is the exact product; int() is truncation toward zero, as in Python.    *)
(***************************************************************************)
EXTENDS Integers, Sequences, FiniteSets, TLC

\* ------------------------------------------------------------- bounds
\* Largest dataset handed to split_data on its own.
MaxN == 10
\* Largest denominator of a split fraction handed to split_data on its own.
MaxDen == 5

\* ------------------------------------------------------------ helpers
Min(a, b) == IF a <= b THEN a ELSE b
Max(a, b) == IF a >= b THEN a ELSE b

\* A graph record as torch.load yields it: node positions x (2-D
\* coordinates), edge_index (pairs of 0-based node indices), and id, the
\* identity of the Python object.  Odd ids are triangles, even ids squares.
GraphOf(id) ==
    LET n == 3 + ((id + 1) % 2)
    IN  [id         |-> id,
         x          |-> [j \in 1..n |-> <<(j * id) % 3, j % 2>>],
         edge_index |-> [j \in 1..n |-> <<j - 1, j % n>>]]

\* The list stored in processed_graphs.pt: n distinct records, in order.
Dataset(n) == [i \in 1..n |-> GraphOf(i)]

\* Fractions num/den, den in 1..maxDen, covering [-1, 2].
FractionsUpTo(maxDen) ==
    UNION {{<<n, d>> : n \in (0 - d)..(2 * d)} : d \in 1..maxDen}

Num(f) == f[1]
Den(f) == f[2]
FracNonNeg(f) == Num(f) >= 0
FracInUnit(f) == Num(f) >= 0 /\ Num(f) <= Den(f)
\* f1 + f2 <= 1 and f1 + f2 > 1, cross-multiplied (denominators positive).
FracSumLeqOne(f1, f2) == Num(f1) * Den(f2) + Num(f2) * Den(f1) <= Den(f1) * Den(f2)
FracSumGtOne(f1, f2) == ~FracSumLeqOne(f1, f2)
FracEq(f, n, d) == Num(f) * d = n * Den(f)

\* int(f * n) mutated: rounding to the nearest integer.
IntTruncRound(f, n) == (2 * Num(f) * n + Den(f)) \div (2 * Den(f))
\* Python's int(f * n) for a fraction f: truncation toward zero.
IntTrunc(f, n) ==
    IF Num(f) * n >= 0 THEN (Num(f) * n) \div Den(f)
                       ELSE 0 - ((0 - Num(f) * n) \div Den(f))

\* Python's s[start:stop] on a list: a negative bound counts from the end,
\* both bounds are clamped to [0, len(s)], and start >= stop gives [].
PyIndex(i, n) == IF i < 0 THEN Max(i + n, 0) ELSE Min(i, n)
PySlice(s, start, stop) ==
    LET lo == PyIndex(start, Len(s))
        hi == PyIndex(stop, Len(s))
    IN  IF lo >= hi THEN << >> ELSE SubSeq(s, lo + 1, hi)

\* split_data mutated: the validation slice forgets its offset.
split_data_NoOffset(gs, train_split_, val_split_) ==
    LET num_graphs == Len(gs)
        train_size == IntTrunc(train_split_, num_graphs)
        val_size   == IntTrunc(val_split_, num_graphs)
    IN  <<PySlice(gs, 0, train_size),
          PySlice(gs, train_size, val_size),
          PySlice(gs, train_size + val_size, num_graphs)>>

\* split_data mutated: the test slice starts one record late.
split_data_LateTest(gs, train_split_, val_split_) ==
    LET num_graphs == Len(gs)
        train_size == IntTrunc(train_split_, num_graphs)
        val_size   == IntTrunc(val_split_, num_graphs)
    IN  <<PySlice(gs, 0, train_size),
          PySlice(gs, train_size, train_size + val_size),
          PySlice(gs, train_size + val_size + 1, num_graphs)>>

\* split_data(graphs, train_split, val_split): <<train, val, test>>.
split_data(gs, train_split_, val_split_) ==
    LET num_graphs == Len(gs)
        train_size == IntTrunc(train_split_, num_graphs)
        val_size   == IntTrunc(val_split_, num_graphs)
    IN  <<PySlice(gs, 0, train_size),
          PySlice(gs, train_size, train_size + val_size),
          PySlice(gs, train_size + val_size, num_graphs)>>

\* ------------------------------------------------ loader and batches
\* The processing devices torch.device can name here.
Devices == {"cpu", "cuda"}

\* A collated batch under construction: the graphs of gs appended to acc.
\* Node positions and edges are concatenated, each edge's node indices
\* shifted by the number of nodes already in the batch; batch[j] is the
\* 0-based graph index of node j; ptr and eptr are the node and edge offsets.
RECURSIVE CollateInto(_, _)
CollateInto(acc, gs) ==
    IF gs = << >> THEN acc
    ELSE LET g   == Head(gs)
             off == Len(acc.x)
             k   == Len(acc.ids)
         IN  CollateInto(
               [ids        |-> Append(acc.ids, g.id),
                x          |-> acc.x \o g.x,
                edge_index |-> acc.edge_index \o
                               [e \in 1..Len(g.edge_index) |->
                                 <<g.edge_index[e][1] + off, g.edge_index[e][2] + off>>],
                batch      |-> acc.batch \o [j \in 1..Len(g.x) |-> k],
                ptr        |-> Append(acc.ptr, off + Len(g.x)),
                eptr       |-> Append(acc.eptr, Len(acc.edge_index) + Len(g.edge_index)),
                device     |-> acc.device],
               Tail(gs))

\* The Batch object the loader collates from a list of graph records.
Collate(gs) ==
    CollateInto([ids |-> << >>, x |-> << >>, edge_index |-> << >>, batch |-> << >>,
                 ptr |-> <<0>>, eptr |-> <<0>>, device |-> "cpu"], gs)

NoBatch == Collate(<< >>)

\* Batch.num_graphs
NumGraphs(b) == Len(b.ids)

\* data[graph_idx] on a Batch (graph_idx 0-based): the graph record again.
GetExample(b, graph_idx) ==
    LET off  == b.ptr[graph_idx + 1]
        eoff == b.eptr[graph_idx + 1]
        ne   == b.eptr[graph_idx + 2] - eoff
    IN  [id         |-> b.ids[graph_idx + 1],
         x          |-> SubSeq(b.x, off + 1, b.ptr[graph_idx + 2]),
         edge_index |-> [e \in 1..ne |->
                          <<b.edge_index[eoff + e][1] - off,
                            b.edge_index[eoff + e][2] - off>>]]

\* DataLoader(dataset, batch_size, shuffle=False)
DataLoader(dataset, bs) == [dataset |-> dataset, batch_size |-> bs]
NoLoader == DataLoader(<< >>, 1)

\* len(loader): the number of batches, the last one possibly short.
NumBatches(loader) ==
    (Len(loader.dataset) + loader.batch_size - 1) \div loader.batch_size

\* The k-th batch (1-based) an iteration over the loader yields.
LoaderBatch(loader, k) ==
    Collate(SubSeq(loader.dataset, (k - 1) * loader.batch_size + 1,
                   Min(k * loader.batch_size, Len(loader.dataset))))

\* data.to(device)
ToDevice(b, dev) == [b EXCEPT !.device = dev]

\* ---------------------------------------------------------- the model
\* Number of classes of the classifier (the label mapping's size).
NumClasses == 5

\* Candidate contents of trained_model.pth.
Weights == {1, 2}

\* Node indices (1-based) of graph k (0-based) in a batch.
NodesOf(b, k) == {j \in 1..Len(b.batch) : b.batch[j] = k}

\* The class scores of graph k of a batch: a stand-in classifier reading
\* the graph's node positions and edges, parameterised by the weights w.
ScoreRow(w, b, k) ==
    LET nodes == NodesOf(b, k)
        f     == Cardinality({j \in nodes : b.x[j][1] > 0})
        e     == Cardinality({i \in 1..Len(b.edge_index) : (b.edge_index[i][1] + 1) \in nodes})
    IN  [c \in 1..NumClasses |-> ((w + c) * (f + e) + c * w) % 7]

\* model(data.x, data.edge_index, data.batch): one score row per graph of
\* the batch, the graph count read off the batch vector.
Forward(w, b) ==
    LET n == IF b.batch = << >> THEN 0 ELSE b.batch[Len(b.batch)] + 1
    IN  [k \in 1..n |-> ScoreRow(w, b, k - 1)]

\* argmax of one row: the 0-based index of its first maximal value.
ArgMax(row) ==
    CHOOSE c \in 0..(Len(row) - 1) :
        /\ \A d \in 0..(Len(row) - 1) : row[d + 1] <= row[c + 1]
        /\ \A d \in 0..(c - 1) : row[d + 1] < row[c + 1]

\* scores.argmax(dim=1): one index per row.
ArgMaxDim1(scores) == [k \in 1..Len(scores) |-> ArgMax(scores[k])]

\* -------------------------------------------------------------- state
\* label_mapping of the driver.
LabelMapping ==
    (0 :> "triangle") @@ (1 :> "rectangle") @@ (2 :> "circle") @@
    (3 :> "hexagon") @@ (4 :> "ellipse")
NoLabels == [c \in {} |-> ""]

NoGraph == [id |-> 0, x |-> << >>, edge_index |-> << >>]
NoArgs == [data |-> NoGraph, pred |-> 0]
NoModel == [training |-> TRUE, device |-> "cpu"]

VARIABLES
    main,          \* the script's position (a line of the driver)
    graphs,        \* the loaded list of graph records
    train_split,   \* config["data"]["train_split"]
    val_split,     \* config["data"]["validation_split"]
    batch_size,    \* config["training"]["batch_size"]
    num_test_samples_to_plot,  \* config["evaluation"][...]
    train_graphs,
    val_graphs,
    test_graphs,
    test_loader,
    cuda_available, \* torch.cuda.is_available()
    device,
    weights,       \* the parameters stored in trained_model.pth
    model,         \* the classifier: its mode and its device
    grad_enabled,  \* torch's gradient-tracking mode
    evaluator,     \* the Evaluator object: its loader and its device
    epc,           \* position inside Evaluator.evaluate ("idle": not running)
    calls,         \* evaluate() calls started so far
    e_predictions, \* evaluate's local list
    it,            \* batches the current iteration over the loader has yielded
    data,          \* evaluate's loop variable
    pred,          \* evaluate's pred
    saved_grad,    \* the mode torch.no_grad() restores on exit
    forward_log,   \* history: the forward passes of the current evaluate() call
    predictions,   \* the list evaluate() returned
    label_mapping,
    random_samples,
    si,            \* selected batch results the outer loop has taken
    gi,            \* graphs of the current batch result the inner loop has taken
    plot_args,     \* plot_graph's arguments data and pred while it runs
    plots          \* history: the figures shown, in order

configVars == <<graphs, train_split, val_split, batch_size,
                num_test_samples_to_plot, cuda_available, weights>>
splitVars == <<train_graphs, val_graphs, test_graphs>>
setupVars == <<test_loader, device, evaluator>>
evalVars == <<epc, calls, e_predictions, it, data, pred, saved_grad,
              forward_log, predictions, model, grad_enabled>>
plotVars == <<label_mapping, random_samples, si, gi, plot_args, plots>>
vars == <<main, configVars, splitVars, setupVars, evalVars, plotVars>>

\* The values the variables hold before the script assigns them.
Unassigned ==
    /\ train_graphs = << >> /\ val_graphs = << >> /\ test_graphs = << >>
    /\ test_loader = NoLoader /\ device = "cpu" /\ evaluator = [loader |-> NoLoader, device |-> "cpu"]
    /\ model = NoModel /\ grad_enabled = TRUE
    /\ epc = "idle" /\ calls = 0 /\ e_predictions = << >> /\ it = 0
    /\ data = NoBatch /\ pred = << >> /\ saved_grad = TRUE
    /\ forward_log = << >> /\ predictions = << >>
    /\ label_mapping = NoLabels /\ random_samples = << >>
    /\ si = 0 /\ gi = 0 /\ plot_args = NoArgs /\ plots = << >>

\* ------------------------------------------- split_data on its own
SplitInit ==
    /\ main = "split_call"
    /\ \E n \in 0..MaxN : graphs = Dataset(n)
    /\ train_split \in FractionsUpTo(MaxDen)
    /\ val_split \in FractionsUpTo(MaxDen)
    /\ batch_size = 1 /\ num_test_samples_to_plot = 0
    /\ cuda_available = FALSE /\ weights = 1
    /\ Unassigned

ApplySplit ==
    /\ main = "split_call"
    /\ LET r == split_data(graphs, train_split, val_split)
       IN  /\ train_graphs' = r[1]
           /\ val_graphs' = r[2]
           /\ test_graphs' = r[3]
    /\ main' = "split_returned"
    /\ UNCHANGED <<configVars, setupVars, evalVars, plotVars>>

SplitNext == ApplySplit

SplitSpec == SplitInit /\ [][SplitNext]_vars

\* ------------------------------------------------- Evaluator.evaluate
\* Line 29 mutated: the model's mode is left as it was.
E29_KeepMode ==
    /\ epc = "l29"
    /\ epc' = "l30"
    /\ UNCHANGED <<main, configVars, splitVars, setupVars, plotVars, calls,
                   e_predictions, it, data, pred, saved_grad, forward_log,
                   predictions, model, grad_enabled>>
\* Line 29: self.model.eval()
E29_ModelEval ==
    /\ epc = "l29"
    /\ model' = [model EXCEPT !.training = FALSE]
    /\ epc' = "l30"
    /\ UNCHANGED <<main, configVars, splitVars, setupVars, plotVars, calls,
                   e_predictions, it, data, pred, saved_grad, forward_log,
                   predictions, grad_enabled>>

\* Line 30 mutated: the list of the previous call is kept.
E30_KeepList ==
    /\ epc = "l30"
    /\ epc' = "l31"
    /\ UNCHANGED <<main, configVars, splitVars, setupVars, plotVars, calls,
                   e_predictions, it, data, pred, saved_grad, forward_log,
                   predictions, model, grad_enabled>>
\* Line 30: predictions = []
E30_NewList ==
    /\ epc = "l30"
    /\ e_predictions' = << >>
    /\ epc' = "l31"
    /\ UNCHANGED <<main, configVars, splitVars, setupVars, plotVars, calls,
                   it, data, pred, saved_grad, forward_log,
                   predictions, model, grad_enabled>>

\* Line 31: with torch.no_grad(): entered; the for statement's iterator
\* over self.loader starts before its first batch.
E31_NoGrad ==
    /\ epc = "l31"
    /\ saved_grad' = grad_enabled
    /\ grad_enabled' = FALSE
    /\ it' = 0
    /\ epc' = "l32"
    /\ UNCHANGED <<main, configVars, splitVars, setupVars, plotVars, calls,
                   e_predictions, data, pred, forward_log, predictions, model>>

\* Line 32: for data in self.loader: the next batch.
E32_NextBatch ==
    /\ epc = "l32"
    /\ it < NumBatches(evaluator.loader)
    /\ data' = LoaderBatch(evaluator.loader, it + 1)
    /\ it' = it + 1
    /\ epc' = "l33"
    /\ UNCHANGED <<main, configVars, splitVars, setupVars, plotVars, calls,
                   e_predictions, pred, saved_grad, forward_log, predictions,
                   model, grad_enabled>>

\* Line 33: data = data.to(self.device)
E33_ToDevice ==
    /\ epc = "l33"
    /\ data' = ToDevice(data, evaluator.device)
    /\ epc' = "l34"
    /\ UNCHANGED <<main, configVars, splitVars, setupVars, plotVars, calls,
                   e_predictions, it, pred, saved_grad, forward_log, predictions,
                   model, grad_enabled>>

\* Line 34: pred = self.model(data.x, data.edge_index, data.batch).argmax(dim=1)
E34_Forward ==
    /\ epc = "l34"
    /\ pred' = ArgMaxDim1(Forward(weights, data))
    /\ forward_log' = Append(forward_log,
                             [ids |-> data.ids, device |-> data.device,
                              model_device |-> model.device,
                              training |-> model.training, grad |-> grad_enabled])
    /\ epc' = "l35"
    /\ UNCHANGED <<main, configVars, splitVars, setupVars, plotVars, calls,
                   e_predictions, it, data, saved_grad, predictions, model,
                   grad_enabled>>

\* Line 35 mutated: the list is replaced by the latest pair.
E35_Overwrite ==
    /\ epc = "l35"
    /\ e_predictions' = <<<<data, pred>>>>
    /\ epc' = "l32"
    /\ UNCHANGED <<main, configVars, splitVars, setupVars, plotVars, calls,
                   it, data, pred, saved_grad, forward_log, predictions, model,
                   grad_enabled>>
\* Line 35: predictions.append((data, pred))
E35_Append ==
    /\ epc = "l35"
    /\ e_predictions' = Append(e_predictions, <<data, pred>>)
    /\ epc' = "l32"
    /\ UNCHANGED <<main, configVars, splitVars, setupVars, plotVars, calls,
                   it, data, pred, saved_grad, forward_log, predictions, model,
                   grad_enabled>>

\* Lines 32 and 36: the loader is exhausted, the with block is left (the
\* gradient mode is restored) and the list is returned to the caller.
E36_Return ==
    /\ epc = "l32"
    /\ it >= NumBatches(evaluator.loader)
    /\ grad_enabled' = saved_grad
    /\ predictions' = e_predictions
    /\ epc' = "idle"
    /\ main' = IF main = "l131" THEN "l134" ELSE main
    /\ UNCHANGED <<configVars, splitVars, setupVars, plotVars, calls,
                   e_predictions, it, data, pred, saved_grad, forward_log, model>>

Evaluate ==
    \/ E29_ModelEval
    \/ E30_NewList
    \/ E31_NoGrad
    \/ E32_NextBatch
    \/ E33_ToDevice
    \/ E34_Forward
    \/ E35_Append
    \/ E36_Return

\* ------------------------------- an Evaluator called more than once
\* Largest dataset behind the loader.
MaxGraphs == 5
\* Largest batch size.
MaxBatch == 2
\* evaluate() calls on one Evaluator.
MaxCalls == 2

\* Evaluator.__init__(model, loader, device): lines 18-20.
EvaluatorInit(m, loader, dev) ==
    [model |-> [m EXCEPT !.device = dev],
     evaluator |-> [loader |-> loader, device |-> dev]]

\* An Evaluator built over any loader, any device, a model in either mode.
EvalInit ==
    /\ main = "caller"
    /\ \E n \in 0..MaxGraphs, lo \in 1..(MaxGraphs + 1) :
          /\ lo <= n + 1
          /\ graphs = SubSeq(Dataset(n), lo, n)
    /\ train_split = <<0, 1>> /\ val_split = <<0, 1>>
    /\ batch_size \in 1..MaxBatch
    /\ num_test_samples_to_plot = 0
    /\ device \in Devices
    /\ cuda_available = (device = "cuda")
    /\ weights \in Weights
    /\ train_graphs = << >> /\ val_graphs = << >> /\ test_graphs = graphs
    /\ test_loader = DataLoader(graphs, batch_size)
    /\ \E training \in BOOLEAN :
          LET o == EvaluatorInit([training |-> training, device |-> "cpu"],
                                 test_loader, device)
          IN  model = o.model /\ evaluator = o.evaluator
    /\ grad_enabled \in BOOLEAN
    /\ epc = "idle" /\ calls = 0 /\ e_predictions = << >> /\ it = 0
    /\ data = NoBatch /\ pred = << >> /\ saved_grad = TRUE
    /\ forward_log = << >> /\ predictions = << >>
    /\ label_mapping = NoLabels /\ random_samples = << >>
    /\ si = 0 /\ gi = 0 /\ plot_args = NoArgs /\ plots = << >>

\* evaluator.evaluate() is called.
CallEvaluate ==
    /\ main = "caller"
    /\ epc = "idle"
    /\ calls < MaxCalls
    /\ calls' = calls + 1
    /\ forward_log' = << >>
    /\ epc' = "l29"
    /\ UNCHANGED <<main, configVars, splitVars, setupVars, plotVars,
                   e_predictions, it, data, pred, saved_grad, predictions,
                   model, grad_enabled>>

EvalNext == CallEvaluate \/ Evaluate

EvalSpec == EvalInit /\ [][EvalNext]_vars

\* ---------------------------------------------------------- Visualizer
\* The line plt.plot draws for edge e: the two endpoints' coordinates.
EdgeLine(nodes, edge) == <<nodes[edge[1] + 1], nodes[edge[2] + 1]>>

\* plot_graph mutated: the node positions are centred in place before
\* they are drawn.
plot_graph_Centres(d, p, lm) ==
    LET nodes == [j \in 1..Len(d.x) |-> <<d.x[j][1] - 1, d.x[j][2]>>]
        edges == d.edge_index
    IN  [data   |-> [d EXCEPT !.x = nodes],
         pred   |-> p,
         label_mapping |-> lm,
         figure |-> [id     |-> d.id,
                     pred   |-> p,
                     lines  |-> [e \in 1..Len(edges) |-> EdgeLine(nodes, edges[e])],
                     points |-> nodes,
                     title  |-> lm[p]]]

\* Visualizer.plot_graph(data, pred, label_mapping), lines 53-70: the
\* figure shown, and the three arguments as the call leaves them.
plot_graph(d, p, lm) ==
    LET nodes == d.x
        edges == d.edge_index
    IN  [data   |-> d,
         pred   |-> p,
         label_mapping |-> lm,
         figure |-> [id     |-> d.id,
                     pred   |-> p,
                     lines  |-> [e \in 1..Len(edges) |-> EdgeLine(nodes, edges[e])],
                     points |-> nodes,
                     title  |-> lm[p]]]

\* ------------------------------------------------------------- driver
\* Denominator of the split fractions of the configuration.
SplitDen == 4
\* Largest num_test_samples_to_plot of the configuration.
MaxPlot == 2

\* The split fractions of the configuration: k/SplitDen in [0, 1].
ConfigFractions == {<<k, SplitDen>> : k \in 0..SplitDen}

\* random.sample(population, k): the position sequences it can select,
\* k distinct positions in any order.
SamplesWithReplacement(n, k) == [1..k -> 1..n]
Samples(n, k) ==
    {s \in [1..k -> 1..n] : \A i \in 1..k, j \in 1..k : i # j => s[i] # s[j]}

\* Lines 101-104: the configuration and the graph list are loaded.
Init ==
    /\ main = "l105"
    /\ \E n \in 0..MaxGraphs : graphs = Dataset(n)
    /\ train_split \in ConfigFractions
    /\ val_split \in ConfigFractions
    /\ batch_size \in 1..MaxBatch
    /\ num_test_samples_to_plot \in 0..MaxPlot
    /\ cuda_available \in BOOLEAN
    /\ weights \in Weights
    /\ Unassigned

\* Lines 105-109: the split.
MainSplit ==
    /\ main = "l105"
    /\ LET r == split_data(graphs, train_split, val_split)
       IN  /\ train_graphs' = r[1]
           /\ val_graphs' = r[2]
           /\ test_graphs' = r[3]
    /\ main' = "l112"
    /\ UNCHANGED <<configVars, setupVars, evalVars, plotVars>>

\* Line 112 mutated: the loader wraps the whole list.
MainLoader_AllGraphs ==
    /\ main = "l112"
    /\ test_loader' = DataLoader(graphs, batch_size)
    /\ main' = "l115"
    /\ UNCHANGED <<configVars, splitVars, device, evaluator, evalVars, plotVars>>
\* Line 112: the loader over the test slice.
MainLoader ==
    /\ main = "l112"
    /\ test_loader' = DataLoader(test_graphs, batch_size)
    /\ main' = "l115"
    /\ UNCHANGED <<configVars, splitVars, device, evaluator, evalVars, plotVars>>

\* Lines 115-126: the device is chosen, the model is built on it, its
\* trained parameters are loaded and it is put into inference mode.
MainModel ==
    /\ main = "l115"
    /\ device' = IF cuda_available THEN "cuda" ELSE "cpu"
    /\ model' = [training |-> FALSE, device |-> device']
    /\ main' = "l130"
    /\ UNCHANGED <<configVars, splitVars, test_loader, evaluator, plotVars,
                   epc, calls, e_predictions, it, data, pred, saved_grad,
                   forward_log, predictions, grad_enabled>>

\* Line 130: evaluator = Evaluator(model, test_loader, device)
MainEvaluator ==
    /\ main = "l130"
    /\ LET o == EvaluatorInit(model, test_loader, device)
       IN  model' = o.model /\ evaluator' = o.evaluator
    /\ main' = "l131"
    /\ UNCHANGED <<configVars, splitVars, test_loader, device, plotVars,
                   epc, calls, e_predictions, it, data, pred, saved_grad,
                   forward_log, predictions, grad_enabled>>

\* Line 131: predictions = evaluator.evaluate(), the call.
MainEvaluate ==
    /\ main = "l131"
    /\ epc = "idle"
    /\ calls' = calls + 1
    /\ forward_log' = << >>
    /\ epc' = "l29"
    /\ UNCHANGED <<main, configVars, splitVars, setupVars, plotVars,
                   e_predictions, it, data, pred, saved_grad, predictions,
                   model, grad_enabled>>

\* Lines 134-135: the label mapping.
MainLabels ==
    /\ main = "l134"
    /\ label_mapping' = LabelMapping
    /\ main' = "l138"
    /\ UNCHANGED <<configVars, splitVars, setupVars, evalVars,
                   random_samples, si, gi, plot_args, plots>>

\* Line 138 mutated: positions are drawn with replacement.
MainSample_Replacing ==
    /\ main = "l138"
    /\ num_test_samples_to_plot <= Len(predictions)
    /\ \E s \in SamplesWithReplacement(Len(predictions), num_test_samples_to_plot) :
          random_samples' = [i \in 1..num_test_samples_to_plot |-> predictions[s[i]]]
    /\ si' = 0
    /\ main' = "l142"
    /\ UNCHANGED <<configVars, splitVars, setupVars, evalVars,
                   label_mapping, gi, plot_args, plots>>
\* Line 138: random.sample(predictions, num_test_samples_to_plot) selects.
MainSample ==
    /\ main = "l138"
    /\ num_test_samples_to_plot <= Len(predictions)
    /\ \E s \in Samples(Len(predictions), num_test_samples_to_plot) :
          random_samples' = [i \in 1..num_test_samples_to_plot |-> predictions[s[i]]]
    /\ si' = 0
    /\ main' = "l142"
    /\ UNCHANGED <<configVars, splitVars, setupVars, evalVars,
                   label_mapping, gi, plot_args, plots>>

\* Line 138 mutated: an oversized sample is cut to the population.
MainSampleFails_Clamps ==
    /\ main = "l138"
    /\ num_test_samples_to_plot > Len(predictions)
    /\ random_samples' = predictions
    /\ si' = 0
    /\ main' = "l142"
    /\ UNCHANGED <<configVars, splitVars, setupVars, evalVars,
                   label_mapping, gi, plot_args, plots>>
\* Line 138: random.sample raises ValueError (the sample is larger than
\* the population); nothing catches it and the script ends.
MainSampleFails ==
    /\ main = "l138"
    /\ num_test_samples_to_plot > Len(predictions)
    /\ main' = "failed"
    /\ UNCHANGED <<configVars, splitVars, setupVars, evalVars, plotVars>>

\* Line 142: for data, preds in random_samples: the next selected result.
MainNextSample ==
    /\ main = "l142"
    /\ si < Len(random_samples)
    /\ si' = si + 1
    /\ gi' = 0
    /\ main' = "l143"
    /\ UNCHANGED <<configVars, splitVars, setupVars, evalVars,
                   label_mapping, random_samples, plot_args, plots>>

\* Line 142: the selected results are exhausted; the script ends.
MainDone ==
    /\ main = "l142"
    /\ si >= Len(random_samples)
    /\ main' = "done"
    /\ UNCHANGED <<configVars, splitVars, setupVars, evalVars, plotVars>>

\* Lines 143-144: for graph_idx, pred in enumerate(preds): the next pair,
\* and plot_graph is entered with data[graph_idx] and pred.
MainPlotCall ==
    /\ main = "l143"
    /\ gi < Len(random_samples[si][2])
    /\ plot_args' = [data |-> GetExample(random_samples[si][1], gi),
                     pred |-> random_samples[si][2][gi + 1]]
    /\ gi' = gi + 1
    /\ main' = "l53"
    /\ UNCHANGED <<configVars, splitVars, setupVars, evalVars,
                   label_mapping, random_samples, si, plots>>

\* Line 143: the batch's predictions are exhausted.
MainNextGraphDone ==
    /\ main = "l143"
    /\ gi >= Len(random_samples[si][2])
    /\ main' = "l142"
    /\ UNCHANGED <<configVars, splitVars, setupVars, evalVars, plotVars>>

\* Lines 53-70: plot_graph draws, shows the figure and returns.
PlotGraph ==
    /\ main = "l53"
    /\ LET r == plot_graph(plot_args.data, plot_args.pred, label_mapping)
       IN  /\ plots' = Append(plots, r.figure)
           /\ plot_args' = [data |-> r.data, pred |-> r.pred]
           /\ label_mapping' = r.label_mapping
    /\ main' = "l143"
    /\ UNCHANGED <<configVars, splitVars, setupVars, evalVars,
                   random_samples, si, gi>>

Next ==
    \/ MainSplit
    \/ MainLoader
    \/ MainModel
    \/ MainEvaluator
    \/ MainEvaluate
    \/ Evaluate
    \/ MainLabels
    \/ MainSample
    \/ MainSampleFails
    \/ MainNextSample
    \/ MainDone
    \/ MainPlotCall
    \/ MainNextGraphDone
    \/ PlotGraph

Spec == Init /\ [][Next]_vars

\* ============================================================ claims
\* floor(f * n) for a fraction f.
FloorMul(f, n) == (Num(f) * n) \div Den(f)

Range(seq) == {seq[i] : i \in 1..Len(seq)}
IdsOf(gs) == [i \in 1..Len(gs) |-> gs[i].id]

\* ------------------------------------------------------------------ C1
\* C1: for fractions train_split >= 0, val_split >= 0 with sum <= 1, the
\* three slices split_data returns are pairwise disjoint, their sizes sum
\* to N, and train, validation, test concatenated in that order are exactly
\* the input list: nothing dropped, duplicated or reordered.
C1_SplitPartition ==
    (/\ main = "split_returned"
     /\ FracNonNeg(train_split) /\ FracNonNeg(val_split)
     /\ FracSumLeqOne(train_split, val_split))
    => /\ train_graphs \o val_graphs \o test_graphs = graphs
       /\ Len(train_graphs) + Len(val_graphs) + Len(test_graphs) = Len(graphs)
       /\ Range(train_graphs) \cap Range(val_graphs) = {}
       /\ Range(train_graphs) \cap Range(test_graphs) = {}
       /\ Range(val_graphs) \cap Range(test_graphs) = {}

\* A split with valid fractions in which all three slices are non-empty.
C1_Witness ==
    /\ main = "split_returned"
    /\ FracNonNeg(train_split) /\ FracNonNeg(val_split)
    /\ FracSumLeqOne(train_split, val_split)
    /\ train_graphs # << >> /\ val_graphs # << >> /\ test_graphs # << >>

\* ------------------------------------------------------------------ C2
\* C2: for fractions in [0,1] with sum <= 1, train is records
\* [0, train_size), validation is [train_size, train_size + val_size) and
\* test is [train_size + val_size, N), with train_size = floor(train_split
\* * N) and val_size = floor(val_split * N); 10 records with 0.6 and 0.2
\* give sizes (6, 2, 2).
C2_SplitRanges ==
    (/\ main = "split_returned"
     /\ FracInUnit(train_split) /\ FracInUnit(val_split)
     /\ FracSumLeqOne(train_split, val_split))
    => LET N  == Len(graphs)
           ts == FloorMul(train_split, N)
           vs == FloorMul(val_split, N)
       IN  /\ train_graphs = SubSeq(graphs, 1, ts)
           /\ val_graphs = SubSeq(graphs, ts + 1, ts + vs)
           /\ test_graphs = SubSeq(graphs, ts + vs + 1, N)
           /\ ts + vs <= N
           /\ (N = 10 /\ FracEq(train_split, 3, 5) /\ FracEq(val_split, 1, 5))
              => <<Len(train_graphs), Len(val_graphs), Len(test_graphs)>> = <<6, 2, 2>>

\* The example: 10 records split with 0.6 and 0.2.
C2_Witness ==
    /\ main = "split_returned"
    /\ Len(graphs) = 10
    /\ train_split = <<3, 5>> /\ val_split = <<1, 5>>
    /\ Len(train_graphs) = 6

\* ------------------------------------------------------------------ C3
\* C3 as stated: for fractions in [0,1] whose sum is more than 1,
\* split_data returns and its test slice is empty.
C3_TestEmptyWhenSumAboveOne ==
    (/\ main = "split_returned"
     /\ FracInUnit(train_split) /\ FracInUnit(val_split)
     /\ FracSumGtOne(train_split, val_split))
    => test_graphs = << >>

\* C3 amended: for fractions in [0,1] whose sum is more than 1, split_data
\* returns and its test slice is the records from train_size + val_size
\* (clamped to N) on: empty exactly when floor(train_split * N) +
\* floor(val_split * N) >= N.
C3_TestSliceWhenSumAboveOne ==
    (/\ main = "split_returned"
     /\ FracInUnit(train_split) /\ FracInUnit(val_split)
     /\ FracSumGtOne(train_split, val_split))
    => LET N  == Len(graphs)
           ts == FloorMul(train_split, N)
           vs == FloorMul(val_split, N)
       IN  /\ test_graphs = SubSeq(graphs, Min(ts + vs, N) + 1, N)
           /\ (test_graphs = << >>) <=> (ts + vs >= N)

\* Fractions in [0,1] summing to more than 1 that leave a test record.
C3_Witness ==
    /\ main = "split_returned"
    /\ FracInUnit(train_split) /\ FracInUnit(val_split)
    /\ FracSumGtOne(train_split, val_split)
    /\ test_graphs # << >>

\* ------------------------------------------------------------------ C4
\* C4: the list evaluate() returns has one entry per batch the loader
\* yielded (none for an empty loader), and each entry's predicted-index
\* vector has one element per graph of the entry's batch.
C4_OutputShape ==
    (epc = "idle" /\ calls > 0)
    => /\ Len(predictions) = NumBatches(evaluator.loader)
       /\ \A i \in 1..Len(predictions) :
             Len(predictions[i][2]) = NumGraphs(predictions[i][1])

\* A returned list of several batches, the last one short.
C4_Witness ==
    /\ main = "caller" /\ epc = "idle" /\ calls > 0
    /\ Len(predictions) >= 2
    /\ Len(predictions[1][2]) = 2
    /\ Len(predictions[Len(predictions)][2]) = 1

\* ------------------------------------------------------------------ C7
\* C7: the returned list is in loader order and paired: entry i holds the
\* i-th batch the loader yielded and, for each of its graphs, an index of
\* a maximal score among the model's scores for that graph of that batch;
\* it is returned only after the loader is exhausted, and a second call
\* starts from an empty list.
C7_OrderedPaired ==
    /\ (epc = "idle" /\ calls > 0)
       => /\ it = NumBatches(evaluator.loader)
          /\ Len(predictions) = NumBatches(evaluator.loader)
    /\ \A i \in 1..Len(predictions) :
          LET b  == predictions[i][1]
              p  == predictions[i][2]
              sc == Forward(weights, b)
              lo == (i - 1) * evaluator.loader.batch_size
          IN  /\ b.ids = [g \in 1..Len(b.ids) |-> evaluator.loader.dataset[lo + g].id]
              /\ b = ToDevice(Collate([g \in 1..Len(b.ids) |-> evaluator.loader.dataset[lo + g]]),
                              evaluator.device)
              /\ Len(p) = Len(sc)
              /\ \A g \in 1..Len(p) : \A c \in 1..NumClasses :
                    sc[g][c] <= sc[g][p[g] + 1]
    /\ (epc \in {"l31", "l32", "l33", "l34", "l35"})
       => Len(e_predictions) = IF epc = "l31" THEN 0
                               ELSE IF epc = "l32" THEN it ELSE it - 1

\* A second call has returned a list of several batches.
C7_Witness ==
    /\ main = "caller" /\ epc = "idle" /\ calls = 2
    /\ Len(predictions) >= 2
    /\ predictions[1][2] # predictions[2][2]

\* ------------------------------------------------------------------ C8
\* C8: in every run of evaluate() every forward pass happens with the
\* model in inference mode and gradient tracking disabled, on a batch
\* already moved to the target device, and the batches the loader yields
\* get exactly one forward pass each, in order.
C8_ForwardDiscipline ==
    /\ \A k \in 1..Len(forward_log) :
          /\ forward_log[k].training = FALSE
          /\ forward_log[k].grad = FALSE
          /\ forward_log[k].device = evaluator.device
          /\ forward_log[k].ids = LoaderBatch(evaluator.loader, k).ids
    /\ (epc \in {"l29", "l30", "l31"}) => forward_log = << >>
    /\ (epc \in {"l33", "l34"}) => Len(forward_log) = it - 1
    /\ (epc \in {"l32", "l35"}) => Len(forward_log) = it
    /\ (epc = "idle" /\ calls > 0) => Len(forward_log) = NumBatches(evaluator.loader)

\* A run on the other device, started with gradient tracking on, has made
\* several forward passes.
C8_Witness ==
    /\ main = "caller" /\ epc = "idle" /\ calls > 0
    /\ Len(forward_log) >= 2
    /\ evaluator.device = "cuda"
    /\ saved_grad = TRUE

\* ------------------------------------------------------------------ C5
\* C5: plot_graph never mutates its inputs: across a call the graph
\* record (node coordinates, edge list), the predicted index and the
\* label mapping keep their values, and so do the batch results they
\* were taken from.
C5_PlotFrame ==
    [][main = "l53"
       => /\ plot_args' = plot_args
          /\ label_mapping' = label_mapping
          /\ random_samples' = random_samples
          /\ predictions' = predictions]_vars

\* plot_graph has returned from drawing a graph with edges.
C5_Witness ==
    /\ main = "l143"
    /\ plots # << >>
    /\ plot_args.data.edge_index # << >>
    /\ plots[Len(plots)].id = plot_args.data.id

\* ------------------------------------------------------------------ C6
\* C6: whenever num_test_samples_to_plot exceeds the number of prediction
\* batches, the sampling step fails, the script ends there and nothing is
\* rendered: no batch result is ever selected.
AfterSampling == {"l142", "l143", "l53", "done"}
C6_OversamplingFails ==
    /\ (main \in AfterSampling) => num_test_samples_to_plot <= Len(predictions)
    /\ (main = "failed")
       => /\ num_test_samples_to_plot > Len(predictions)
          /\ plots = << >>
          /\ random_samples = << >>
          /\ epc = "idle"

\* The script has failed at the sampling step with batches available.
C6_Witness ==
    /\ main = "failed"
    /\ Len(predictions) > 0
    /\ num_test_samples_to_plot > Len(predictions)

\* ------------------------------------------------------------------ C9
\* The <<graph id, predicted index>> pairs of a batch result, by position.
PairsOf(sample) ==
    [g \in 1..NumGraphs(sample[1]) |-> <<sample[1].ids[g], sample[2][g]>>]

RECURSIVE PairsOfAll(_)
PairsOfAll(samples) ==
    IF samples = << >> THEN << >>
    ELSE PairsOf(Head(samples)) \o PairsOfAll(Tail(samples))

PlottedPairs == [k \in 1..Len(plots) |-> <<plots[k].id, plots[k].pred>>]

IsPrefix(a, b) == Len(a) <= Len(b) /\ a = SubSeq(b, 1, Len(a))

\* C9: when num_test_samples_to_plot does not exceed the number of
\* prediction batches, exactly that many batch results at pairwise
\* distinct positions are selected; every graph of every selected batch is
\* rendered exactly once with the predicted index at its own position and
\* titled with that index's label; no other graph is rendered; and
\* rendering starts only after evaluate() has returned the list of all
\* test batches.
C9_SampleAndRender ==
    /\ (main \in AfterSampling)
       => /\ Len(random_samples) = num_test_samples_to_plot
          /\ \A i \in 1..Len(random_samples) : random_samples[i] \in Range(predictions)
          /\ \A i \in 1..Len(random_samples), j \in 1..Len(random_samples) :
                i # j => random_samples[i][1].ids # random_samples[j][1].ids
          /\ IsPrefix(PlottedPairs, PairsOfAll(random_samples))
          /\ \A k \in 1..Len(plots) : plots[k].title = LabelMapping[plots[k].pred]
    /\ (main = "done") => PlottedPairs = PairsOfAll(random_samples)
    /\ (main \notin AfterSampling) => plots = << >>
    /\ (main \in AfterSampling)
       => /\ epc = "idle"
          /\ Len(predictions) = NumBatches(test_loader)

\* Two of three batch results were selected and drawn, one of them a
\* batch of two graphs with different predictions.
C9_Witness ==
    /\ main = "done"
    /\ num_test_samples_to_plot = 2
    /\ Len(predictions) > 2
    /\ Len(plots) >= 3
    /\ \E i \in 1..Len(random_samples) :
          /\ Len(random_samples[i][2]) = 2
          /\ random_samples[i][2][1] # random_samples[i][2][2]

\* ----------------------------------------------------------------- C10
RECURSIVE Flatten(_)
Flatten(seqs) == IF seqs = << >> THEN << >> ELSE Head(seqs) \o Flatten(Tail(seqs))

ForwardIds == Flatten([k \in 1..Len(forward_log) |-> forward_log[k].ids])

AfterEvaluate == {"l134", "l138", "failed"} \cup AfterSampling

\* C10: the graphs passed through the model are exactly the records of the
\* test slice, each in exactly one batch, in the original order, each
\* batch holding between one and batch_size graphs; no record of the
\* train or validation slice is given to the model.
C10_OnlyTestSlice ==
    /\ IsPrefix(ForwardIds, IdsOf(test_graphs))
    /\ (main \in AfterEvaluate) => ForwardIds = IdsOf(test_graphs)
    /\ \A k \in 1..Len(forward_log) :
          /\ Len(forward_log[k].ids) >= 1
          /\ Len(forward_log[k].ids) <= batch_size
    /\ Range(ForwardIds) \cap Range(IdsOf(train_graphs)) = {}
    /\ Range(ForwardIds) \cap Range(IdsOf(val_graphs)) = {}

\* A run whose test slice of three graphs went through the model in two
\* batches while a non-empty train slice did not.
C10_Witness ==
    /\ main \in AfterEvaluate
    /\ train_graphs # << >>
    /\ Len(test_graphs) = 3
    /\ Len(forward_log) = 2

====
